---- MODULE Spec2Model ----
(***************************************************************************)
(* Release Notes Monitor (scripts/check_releases.py).                      *)
(*                                                                         *)
(* Text is a sequence of one-character strings, so that lower(), strip()   *)
(* and the substring test can be computed the way Python computes them.    *)
(* Dates are small integers standing for the rank of the ISO date string   *)
(* in Python's string order (the order sorted() uses in generate_rss_feed).*)
(***************************************************************************)
EXTENDS Integers, Sequences, FiniteSets, TLC

\* ------------------------------------------------------------ constants
MAX_FEED_ITEMS == 100
RECENT_PER_PRODUCT == 5
SEEN_LIMIT == 200

\* ------------------------------------------------------------ bounds
MaxRuns == 2
MaxFaults == 1
MaxKeywords == 1
MaxFilterItems == 2
MaxRecords == 11
WideProducts == 21

\* ------------------------------------------------------------ text
SURROGATE == "\\ud800"
WS == " "

Range(s) == {s[i] : i \in DOMAIN s}

Min(a, b) == IF a <= b THEN a ELSE b

LowerChar(c) ==
  CASE c = "A" -> "a"
    [] c = "B" -> "b"
    [] c = "C" -> "c"
    [] OTHER -> c

\* str.lower()
Lower(s) == [i \in DOMAIN s |-> LowerChar(s[i])]

\* str.strip(): drop leading and trailing whitespace
RECURSIVE LStrip(_)
LStrip(s) == IF s # <<>> /\ Head(s) = WS THEN LStrip(Tail(s)) ELSE s

RECURSIVE RStrip(_)
RStrip(s) ==
  IF s # <<>> /\ s[Len(s)] = WS THEN RStrip(SubSeq(s, 1, Len(s) - 1)) ELSE s

Strip(s) == RStrip(LStrip(s))

\* Python's `kw in text` on strings
Contains(text, kw) ==
  \E i \in 0..(Len(text) - Len(kw)) : SubSeq(text, i + 1, i + Len(kw)) = kw

\* str.encode("utf-8") raises UnicodeEncodeError on a lone surrogate
CanEncode(s) == \A i \in DOMAIN s : s[i] # SURROGATE

\* ------------------------------------------------------------ identity
\* hashlib.sha256(...).hexdigest()[:16], taken as injective on its input
Sha256Hex16(raw) == raw

RawKey(product_id, title, link) ==
  Lower(Strip(product_id \o <<":">> \o title \o <<":">> \o link))

\* Faulty variant: the link is left out of the hashed text.
RawKeyNoLink(product_id, title, link) ==
  Lower(Strip(product_id \o <<":">> \o title))

ItemKey(product_id, title, link) == RawKey(product_id, title, link)

IdRaises(product_id, title, link) == ~CanEncode(ItemKey(product_id, title, link))

generate_item_id(product_id, title, link) ==
  Sha256Hex16(ItemKey(product_id, title, link))

\* ------------------------------------------------------------ keyword filter
FilterText(item) == Lower(item.title) \o <<WS>> \o Lower(item.summary)

AnyKw(text, kws) == \E k \in DOMAIN kws : Contains(text, kws[k])

\* Faulty variant: the exclude list is consulted only when there is no include
\* list.
KeepItemExcludeOnlyWithoutInclude(item, inc, exc) ==
  LET text == FilterText(item) IN
  IF inc # <<>> THEN AnyKw(text, inc) ELSE ~AnyKw(text, exc)

KeepItem(item, inc, exc) ==
  LET text == FilterText(item) IN
  /\ (inc # <<>> => AnyKw(text, inc))
  /\ (exc # <<>> => ~AnyKw(text, exc))

RECURSIVE FilterLoop(_, _, _, _)
FilterLoop(items, i, inc, exc) ==
  IF i > Len(items) THEN <<>>
  ELSE IF KeepItem(items[i], inc, exc)
       THEN <<items[i]>> \o FilterLoop(items, i + 1, inc, exc)
       ELSE FilterLoop(items, i + 1, inc, exc)

apply_keyword_filters(items, include, exclude) ==
  LET include_keywords == [k \in DOMAIN include |-> Lower(include[k])]
      exclude_keywords == [k \in DOMAIN exclude |-> Lower(exclude[k])]
  IN IF include_keywords = <<>> /\ exclude_keywords = <<>>
     THEN items
     ELSE FilterLoop(items, 1, include_keywords, exclude_keywords)

\* ------------------------------------------------------------ configuration
\* config/teams.json: two teams; the product "p" is watched by both teams.
\* In the "wide" configuration team t1 watches WideProducts products instead.
VARIABLE cfg

TeamIds == <<"t1", "t2">>

WideId(i) == "w" \o ToString(i)

WideIds == {WideId(i) : i \in 1..WideProducts}

Products(team_id) ==
  IF team_id = "t1" /\ cfg = "wide"
  THEN [i \in 1..WideProducts |->
          [id |-> WideId(i), include |-> <<>>, exclude |-> <<>>]]
  ELSE IF team_id = "t1"
  THEN << [id |-> "p", include |-> <<>>, exclude |-> <<>>],
          [id |-> "q", include |-> <<>>, exclude |-> << <<"B">> >>] >>
  ELSE << [id |-> "p", include |-> <<>>, exclude |-> <<>>] >>

\* The (team, product) pairs of the configuration
Slots ==
  UNION {{<<TeamIds[u], Products(TeamIds[u])[j].id>> :
            j \in DOMAIN Products(TeamIds[u])} : u \in DOMAIN TeamIds}

\* Every key seen[team_id][product_id] can have under either configuration
AllSlots ==
  {<<"t1", "p">>, <<"t1", "q">>, <<"t2", "p">>}
    \cup {<<"t1", w>> : w \in WideIds}

LINK == <<"l">>

RawItem(title, summary, date) ==
  [title |-> title, link |-> LINK, summary |-> summary, date |-> date]

\* What the source adapter of a product can hand back on one call: it raises,
\* or it returns a list of raw items (an unreachable source returns []).
Pages(team_id, product_id) ==
  IF team_id = "t1" /\ product_id = "p" THEN
    << [raises |-> TRUE, items |-> <<>>],
       [raises |-> FALSE,
        items |-> << RawItem(<<"b">>, <<>>, 1), RawItem(<<"a">>, <<>>, 2) >>],
       [raises |-> FALSE,
        items |-> << RawItem(<<"b">>, <<>>, 1),
                     RawItem(<<SURROGATE>>, <<>>, 2) >>],
       [raises |-> FALSE,
        items |-> << RawItem(<<"a">>, <<>>, 3), RawItem(<<"b">>, <<>>, 2),
                     RawItem(<<"c">>, <<>>, 2), RawItem(<<"d">>, <<>>, 1),
                     RawItem(<<"A">>, <<>>, 1), RawItem(<<"e">>, <<>>, 1) >>] >>
  ELSE IF team_id = "t1" /\ product_id = "q" THEN
    << [raises |-> FALSE,
        items |-> << RawItem(<<"a">>, <<"b">>, 2),
                     RawItem(<<"c">>, <<>>, 3) >>] >>
  ELSE IF team_id = "t1" THEN
    << [raises |-> FALSE,
        items |-> << RawItem(<<"a">>, <<>>, 3), RawItem(<<"b">>, <<>>, 3),
                     RawItem(<<"c">>, <<>>, 2), RawItem(<<"d">>, <<>>, 2),
                     RawItem(<<"e">>, <<>>, 2) >>] >>
  ELSE
    << [raises |-> FALSE,
        items |-> << RawItem(<<"b">>, <<>>, 3), RawItem(<<"d">>, <<>>, 1) >>],
       [raises |-> TRUE, items |-> <<>>] >>

\* ------------------------------------------------------------ items
Enrich(product_id, raw_item) ==
  [id |-> generate_item_id(<<product_id>>, raw_item.title, raw_item.link),
   product_id |-> product_id,
   title |-> raw_item.title,
   link |-> raw_item.link,
   summary |-> raw_item.summary,
   date |-> raw_item.date]

Ids(items) == [i \in DOMAIN items |-> items[i].id]

Digit(n) == <<"0", "1", "2", "3", "4", "5", "6", "7", "8", "9">>[n + 1]

RECURSIVE Dec(_)
Dec(n) == IF n < 10 THEN <<Digit(n)>> ELSE Dec(n \div 10) \o <<Digit(n % 10)>>

\* An item of product "p" issued by an earlier run: release "v<n>".
OldItem(n) == Enrich("p", RawItem(<<"v">> \o Dec(n), <<>>, 1))

ItemOf(title, date) == Enrich("p", RawItem(title, <<>>, date))

\* ------------------------------------------------------------ product check
\* s[-n:]
LastN(s, n) == IF Len(s) <= n THEN s ELSE SubSeq(s, Len(s) - n + 1, Len(s))

\* s[:n]
FirstN(s, n) == SubSeq(s, 1, Min(Len(s), n))

\* Faulty variant: the seen list is not consulted.
IsNewAlways(item_id, seen_list) == TRUE

\* `item_id not in seen[team_id][product_id]`
IsNew(item_id, seen_list) == item_id \notin Range(seen_list)

\* The loop over raw_items[:RECENT_PER_PRODUCT]: st.raised is set when
\* generate_item_id raises, which leaves the loop with what was done so far.
RECURSIVE EnrichLoop(_, _, _, _)
EnrichLoop(product_id, raw_items, i, st) ==
  IF i > Min(Len(raw_items), RECENT_PER_PRODUCT) THEN st
  ELSE IF IdRaises(<<product_id>>, raw_items[i].title, raw_items[i].link)
       THEN [st EXCEPT !.raised = TRUE]
       ELSE LET enriched_item == Enrich(product_id, raw_items[i])
                fresh == IsNew(enriched_item.id, st.seen)
            IN EnrichLoop(product_id, raw_items, i + 1,
                 [seen |-> IF fresh THEN Append(st.seen, enriched_item.id)
                           ELSE st.seen,
                  recent |-> Append(st.recent, enriched_item),
                  new |-> IF fresh THEN Append(st.new, enriched_item) ELSE st.new,
                  raised |-> FALSE])

\* The loop over raw_items[RECENT_PER_PRODUCT:], which only records ids.
RECURSIVE RemainLoop(_, _, _, _)
RemainLoop(product_id, raw_items, i, st) ==
  IF i > Len(raw_items) THEN st
  ELSE IF IdRaises(<<product_id>>, raw_items[i].title, raw_items[i].link)
       THEN [st EXCEPT !.raised = TRUE]
       ELSE LET item_id == generate_item_id(<<product_id>>, raw_items[i].title,
                                            raw_items[i].link)
            IN RemainLoop(product_id, raw_items, i + 1,
                 IF IsNew(item_id, st.seen)
                 THEN [st EXCEPT !.seen = Append(st.seen, item_id)]
                 ELSE st)

\* seen[team_id][product_id][-200:]
TruncateSeen(seen_list) == LastN(seen_list, SEEN_LIMIT)

\* The body of the try block of one product, after check_product returned
\* raw_items: both loops, then the truncation unless something raised.
TryBody(product_id, raw_items, seen_list, recent, new) ==
  LET s0 == [seen |-> seen_list, recent |-> recent, new |-> new, raised |-> FALSE]
      s1 == EnrichLoop(product_id, raw_items, 1, s0)
      s2 == IF s1.raised THEN s1
            ELSE RemainLoop(product_id, raw_items, RECENT_PER_PRODUCT + 1, s1)
  IN IF s2.raised THEN s2 ELSE [s2 EXCEPT !.seen = TruncateSeen(s2.seen)]

\* check_product: the adapter's page through the product's keyword filter
check_product(product, page) ==
  apply_keyword_filters(page.items, product.include, product.exclude)

\* Faulty variant: the handler lets the error through.
ExceptPropagates(raised) == IF raised THEN "propagate" ELSE "continue"

\* `except Exception as e:` logs and lets the loop go on to the next product
ExceptHandler(raised) == "continue"

\* ------------------------------------------------------------ feed assembly
\* The dedup loop over all_items with the set seen_ids: it keeps all_items[i]
\* exactly when no earlier element has its id, in the order of all_items.
DedupLoop(all_items) ==
  LET idx == [i \in 1..Len(all_items) |-> i]
      first(i) == \A j \in 1..(i - 1) : all_items[j].id # all_items[i].id
      kept == SelectSeq(idx, first)
  IN [k \in DOMAIN kept |-> all_items[kept[k]]]

\* Faulty variant: no deduplication.
MergeNoDedup(recent, existing) == FirstN(recent \o existing, MAX_FEED_ITEMS)

\* Faulty variant: the history goes in front of this run's items.
MergeHistoryFirst(recent, existing) ==
  FirstN(DedupLoop(existing \o recent), MAX_FEED_ITEMS)

\* all_items = recent_items + existing_items; dedup; [:MAX_FEED_ITEMS]
Merge(recent, existing) ==
  FirstN(DedupLoop(recent \o existing), MAX_FEED_ITEMS)

\* sorted(all_items, key=date, reverse=True): a stable sort, so the items of
\* one date keep their order: the items of the latest date, then the rest.
RECURSIVE SortByDates(_, _)
SortByDates(items, dates) ==
  IF dates = {} THEN <<>>
  ELSE LET d == CHOOSE x \in dates : \A y \in dates : y <= x
           latest(item) == item.date = d
       IN SelectSeq(items, latest) \o SortByDates(items, dates \ {d})

SortDesc(items) == SortByDates(items, {items[i].date : i \in DOMAIN items})

Entry(item) == [guid |-> item.id, date |-> item.date]

\* Faulty variant: the entries are written in the order given.
RenderUnsorted(all_items) ==
  LET sorted_items == FirstN(all_items, MAX_FEED_ITEMS)
  IN [i \in DOMAIN sorted_items |-> Entry(sorted_items[i])]

\* generate_rss_feed: the <item> entries of the document, in order
generate_rss_feed(all_items) ==
  LET sorted_items == FirstN(SortDesc(all_items), MAX_FEED_ITEMS)
  IN [i \in DOMAIN sorted_items |-> Entry(sorted_items[i])]

\* ------------------------------------------------------------ state
VARIABLES
  disk_seen,       \* data/seen.json: [st, data], st in absent / partial / ok
  disk_feed,       \* docs/feeds/<team>.json, per team: [st, data]
  disk_rss,        \* docs/feeds/<team>.xml, per team: the entries in order
  disk_master,     \* docs/feeds/all.xml: the entries in order
  pc,              \* where main() is
  run,             \* runs started so far
  faults,          \* crashes and failed writes so far
  seen,            \* main's `seen`, by (team id, product id)
  existing_items,  \* main's existing_items of the current team
  recent_items,    \* main's recent_items of the current team
  new_team_items,  \* main's new_team_items of the current team
  new_items_total, \* main's new_items_total
  ti,              \* index of the current team
  pi,              \* index of the current product within the team
  cause,           \* what ended the run fatally, "none" otherwise
  fetched,         \* by (team, product): the page served in this run, or 0
  prev_fetched,    \* `fetched` of the previous run
  prev_done,       \* the previous run ran to its end
  feed_changed,    \* per team: this run changed the ids of the FeedHistory
  evicted,         \* by (team, product): ids the truncation dropped so far
  run_evicted,     \* this run's truncation dropped some id
  prev_evicted,    \* `run_evicted` of the previous run
  substituted,     \* this run replaced an unreadable FeedHistory by []
  errors,          \* product checks that raised in this run
  pre_partial,     \* blobs that were already partial when this run started
  f_items, f_include, f_exclude, f_out, f_pc,   \* keyword filter on its own
  id_a, id_b, id_out, id_pc,                    \* generate_item_id on its own
  a_type, a_src, a_out, a_pc                    \* a source adapter on its own

main_vars ==
  <<cfg, disk_seen, disk_feed, disk_rss, disk_master, pc, run, faults, seen,
    existing_items, recent_items, new_team_items, new_items_total, ti, pi,
    cause, fetched, prev_fetched, prev_done, feed_changed, evicted,
    run_evicted, prev_evicted, substituted, errors, pre_partial>>

filter_vars == <<f_items, f_include, f_exclude, f_out, f_pc>>

id_vars == <<id_a, id_b, id_out, id_pc>>

adapter_vars == <<a_type, a_src, a_out, a_pc>>

vars == <<main_vars, filter_vars, id_vars, adapter_vars>>

TeamSet == Range(TeamIds)

EmptySeen == [s \in AllSlots |-> <<>>]

Absent(empty) == [st |-> "absent", data |-> empty]
Partial(empty) == [st |-> "partial", data |-> empty]
Ok(data) == [st |-> "ok", data |-> data]

\* load_json / json.load of a blob that can be read
Loaded(blob) == blob.data

CurTeam == TeamIds[ti]
CurProduct == Products(CurTeam)[pi]
CurSlot == <<CurTeam, CurProduct.id>>

\* ------------------------------------------------------------ persisted inputs
\* First run: nothing on disk.
FreshDisk ==
  [seen |-> Absent(EmptySeen),
   feed |-> [t \in TeamSet |-> Absent(<<>>)]]

\* After many runs: product "p" of team t1 has a full seen list whose oldest id
\* is the release "a" the page still shows, the history of t1 is one short of
\* the cap, and team t2 holds the history a, b, c.
AgedSeen ==
  [s \in AllSlots |->
     IF s = <<"t1", "p">>
       THEN <<ItemOf(<<"a">>, 2).id>>
            \o [i \in 1..(SEEN_LIMIT - 1) |-> OldItem(i).id]
     ELSE IF s = <<"t2", "p">>
       THEN Ids(<<ItemOf(<<"a">>, 3), ItemOf(<<"b">>, 2), ItemOf(<<"c">>, 1)>>)
     ELSE <<>>]

AgedDisk ==
  [seen |-> Ok(AgedSeen),
   feed |-> [t \in TeamSet |->
       IF t = "t1"
       THEN Ok([i \in 1..(MAX_FEED_ITEMS - 1) |-> OldItem(MAX_FEED_ITEMS - i)])
       ELSE Ok(<<ItemOf(<<"a">>, 3), ItemOf(<<"b">>, 2), ItemOf(<<"c">>, 1)>>)]]

ReadableFeed(blob) == IF blob.st = "ok" THEN Loaded(blob) ELSE <<>>

IdleFilter ==
  /\ f_items = <<>> /\ f_include = <<>> /\ f_exclude = <<>>
  /\ f_out = <<>> /\ f_pc = "off"

IdleId ==
  /\ id_a = <<>> /\ id_b = <<>> /\ id_out = <<>> /\ id_pc = "off"

IdleAdapter ==
  /\ a_type = "none" /\ a_src = <<>> /\ a_out = <<>> /\ a_pc = "off"

MainInit(disk) ==
  /\ disk_seen = disk.seen
  /\ disk_feed = disk.feed
  /\ disk_rss = [t \in TeamSet |-> generate_rss_feed(ReadableFeed(disk.feed[t]))]
  /\ disk_master = <<>>
  /\ pc = "idle"
  /\ run = 0
  /\ faults = 0
  /\ seen = EmptySeen
  /\ existing_items = <<>>
  /\ recent_items = <<>>
  /\ new_team_items = <<>>
  /\ new_items_total = 0
  /\ ti = 1
  /\ pi = 1
  /\ cause = "none"
  /\ fetched = [s \in AllSlots |-> 0]
  /\ prev_fetched = [s \in AllSlots |-> 0]
  /\ prev_done = FALSE
  /\ feed_changed = [t \in TeamSet |-> FALSE]
  /\ evicted = [s \in AllSlots |-> {}]
  /\ run_evicted = FALSE
  /\ prev_evicted = FALSE
  /\ substituted = FALSE
  /\ errors = 0
  /\ pre_partial = {}

Init ==
  /\ cfg \in {"base", "wide"}
  /\ \E disk \in {FreshDisk, AgedDisk} : MainInit(disk)
  /\ IdleFilter
  /\ IdleId
  /\ IdleAdapter

\* ------------------------------------------------------------ main()
InRun ==
  pc \in {"team", "product", "merge", "feed_dump", "rss", "master",
          "seen_open", "seen_dump"}

RunGhosts ==
  /\ prev_fetched' = fetched
  /\ fetched' = [s \in AllSlots |-> 0]
  /\ prev_done' = (pc = "done")
  /\ feed_changed' = [t \in TeamSet |-> FALSE]
  /\ prev_evicted' = run_evicted
  /\ run_evicted' = FALSE
  /\ substituted' = FALSE
  /\ errors' = 0
  /\ pre_partial' = {t \in TeamSet : disk_feed[t].st = "partial"}
                    \cup (IF disk_seen.st = "partial" THEN {"seen"} ELSE {})

\* main() up to the team loop: seen = load_json(SEEN_FILE), which raises on a
\* file that does not parse.
StartRun ==
  /\ pc \in {"idle", "done", "crashed", "fatal"}
  /\ run < MaxRuns
  /\ run' = run + 1
  /\ RunGhosts
  /\ existing_items' = <<>>
  /\ recent_items' = <<>>
  /\ new_team_items' = <<>>
  /\ new_items_total' = 0
  /\ ti' = 1
  /\ pi' = 1
  /\ IF disk_seen.st = "partial"
       THEN /\ pc' = "fatal"
            /\ cause' = "read_seen"
            /\ seen' = EmptySeen
       ELSE /\ pc' = "team"
            /\ cause' = "none"
            /\ seen' = Loaded(disk_seen)
  /\ UNCHANGED <<cfg, filter_vars, id_vars, adapter_vars,
                 disk_seen, disk_feed, disk_rss,
                 disk_master, faults, evicted>>

\* Start of one team: existing_items is the team's history, or [] when the file
\* is missing or cannot be parsed.
LoadTeam ==
  /\ pc = "team"
  /\ existing_items' = ReadableFeed(disk_feed[CurTeam])
  /\ substituted' = (substituted \/ disk_feed[CurTeam].st = "partial")
  /\ recent_items' = <<>>
  /\ new_team_items' = <<>>
  /\ pi' = 1
  /\ pc' = "product"
  /\ UNCHANGED <<cfg, filter_vars, id_vars, adapter_vars,
                 disk_seen, disk_feed, disk_rss,
                 disk_master, run, faults, seen, new_items_total, ti, cause,
                 fetched, prev_fetched, prev_done, feed_changed, evicted,
                 run_evicted, prev_evicted, errors, pre_partial>>

AfterProduct(handler) ==
  IF handler = "propagate"
  THEN /\ pc' = "fatal"
       /\ cause' = "product"
       /\ pi' = pi
  ELSE /\ cause' = cause
       /\ IF pi < Len(Products(CurTeam))
          THEN pi' = pi + 1 /\ pc' = "product"
          ELSE pi' = pi /\ pc' = "merge"

RawIds(product_id, raw_items) ==
  {generate_item_id(<<product_id>>, raw_items[i].title, raw_items[i].link) :
     i \in DOMAIN raw_items}

\* One pass of the product loop: check_product, the try body, the handler.
CheckProduct ==
  /\ pc = "product"
  /\ \E k \in DOMAIN Pages(CurTeam, CurProduct.id) :
       LET page == Pages(CurTeam, CurProduct.id)[k]
           raw_items == check_product(CurProduct, page)
           r == IF page.raises
                THEN [seen |-> seen[CurSlot], recent |-> recent_items,
                      new |-> new_team_items, raised |-> TRUE]
                ELSE TryBody(CurProduct.id, raw_items, seen[CurSlot],
                             recent_items, new_team_items)
           dropped == IF r.raised THEN {}
                      ELSE (Range(seen[CurSlot])
                            \cup RawIds(CurProduct.id, raw_items))
                           \ Range(r.seen)
       IN /\ seen' = [seen EXCEPT ![CurSlot] = r.seen]
          /\ recent_items' = r.recent
          /\ new_team_items' = r.new
          /\ fetched' = [fetched EXCEPT ![CurSlot] = k]
          /\ errors' = errors + (IF r.raised THEN 1 ELSE 0)
          /\ evicted' = [evicted EXCEPT ![CurSlot] = @ \cup dropped]
          /\ run_evicted' = (run_evicted \/ dropped # {})
          /\ AfterProduct(ExceptHandler(r.raised))
  /\ UNCHANGED <<cfg, filter_vars, id_vars, adapter_vars,
                 disk_seen, disk_feed, disk_rss,
                 disk_master, run, faults, existing_items, new_items_total,
                 ti, prev_fetched, prev_done, feed_changed, prev_evicted,
                 substituted, pre_partial>>

\* The process ends without returning from main(): what it held in memory is
\* gone, what is on disk stays.
Exit ==
  /\ seen' = EmptySeen
  /\ existing_items' = <<>>
  /\ recent_items' = <<>>
  /\ new_team_items' = <<>>
  /\ new_items_total' = 0
  /\ ti' = 1
  /\ pi' = 1
  /\ fetched' = [s \in AllSlots |-> 0]
  /\ feed_changed' = [t \in TeamSet |-> FALSE]
  /\ errors' = 0

\* An exception that nothing catches: main() ends with it.
Fatal(why) ==
  /\ faults < MaxFaults
  /\ faults' = faults + 1
  /\ pc' = "fatal"
  /\ cause' = why
  /\ Exit

\* The merge, then save_json's open(path, "w"): the open fails, or it leaves
\* the file empty until json.dump has run.
MergeOpen ==
  /\ pc = "merge"
  /\ \/ /\ Fatal("write")
        /\ UNCHANGED disk_feed
     \/ /\ disk_feed' = [disk_feed EXCEPT ![CurTeam] = Partial(<<>>)]
        /\ feed_changed' = [feed_changed EXCEPT ![CurTeam] =
             Ids(Merge(recent_items, existing_items))
               # Ids(ReadableFeed(disk_feed[CurTeam]))]
        /\ pc' = "feed_dump"
        /\ UNCHANGED <<faults, cause, seen, existing_items, recent_items,
                       new_team_items, new_items_total, ti, pi, fetched, errors>>
  /\ UNCHANGED <<cfg, filter_vars, id_vars, adapter_vars,
                 disk_seen, disk_rss, disk_master, run,
                 prev_fetched, prev_done, evicted, run_evicted, prev_evicted,
                 substituted, pre_partial>>

\* json.dump(deduped_items, f) and the close
FeedDump ==
  /\ pc = "feed_dump"
  /\ disk_feed' = [disk_feed EXCEPT ![CurTeam] =
                     Ok(Merge(recent_items, existing_items))]
  /\ pc' = "rss"
  /\ UNCHANGED <<cfg, filter_vars, id_vars, adapter_vars,
                 disk_seen, disk_rss, disk_master, run,
                 faults, seen, existing_items, recent_items, new_team_items,
                 new_items_total, ti, pi, cause, fetched, prev_fetched,
                 prev_done, feed_changed, evicted, run_evicted, prev_evicted,
                 substituted, errors, pre_partial>>

\* The team's RSS document, the count of new items, on to the next team.
WriteRss ==
  /\ pc = "rss"
  /\ disk_rss' = [disk_rss EXCEPT ![CurTeam] =
                    generate_rss_feed(Merge(recent_items, existing_items))]
  /\ new_items_total' = new_items_total + Len(new_team_items)
  /\ IF ti < Len(TeamIds)
     THEN ti' = ti + 1 /\ pc' = "team"
     ELSE ti' = ti /\ pc' = "master"
  /\ UNCHANGED <<cfg, filter_vars, id_vars, adapter_vars,
                 disk_seen, disk_feed, disk_master,
                 run, faults, seen, existing_items, recent_items,
                 new_team_items, pi, cause, fetched, prev_fetched, prev_done,
                 feed_changed, evicted, run_evicted, prev_evicted,
                 substituted, errors, pre_partial>>

RECURSIVE AllTeamItems(_)
AllTeamItems(i) ==
  IF i > Len(TeamIds) THEN <<>>
  ELSE ReadableFeed(disk_feed[TeamIds[i]]) \o AllTeamItems(i + 1)

\* The master feed over every team's saved history.
Master ==
  /\ pc = "master"
  /\ disk_master' = generate_rss_feed(AllTeamItems(1))
  /\ pc' = "seen_open"
  /\ UNCHANGED <<cfg, filter_vars, id_vars, adapter_vars,
                 disk_seen, disk_feed, disk_rss, run,
                 faults, seen, existing_items, recent_items, new_team_items,
                 new_items_total, ti, pi, cause, fetched, prev_fetched,
                 prev_done, feed_changed, evicted, run_evicted, prev_evicted,
                 substituted, errors, pre_partial>>

\* save_json(SEEN_FILE, seen): the open
SeenOpen ==
  /\ pc = "seen_open"
  /\ \/ /\ Fatal("write")
        /\ UNCHANGED disk_seen
     \/ /\ disk_seen' = Partial(EmptySeen)
        /\ pc' = "seen_dump"
        /\ UNCHANGED <<faults, cause, seen, existing_items, recent_items,
                       new_team_items, new_items_total, ti, pi, fetched,
                       feed_changed, errors>>
  /\ UNCHANGED <<cfg, filter_vars, id_vars, adapter_vars,
                 disk_feed, disk_rss, disk_master, run,
                 prev_fetched, prev_done, evicted, run_evicted, prev_evicted,
                 substituted, pre_partial>>

\* save_json(SEEN_FILE, seen): json.dump and the close; main returns.
SeenDump ==
  /\ pc = "seen_dump"
  /\ disk_seen' = Ok(seen)
  /\ pc' = "done"
  /\ UNCHANGED <<cfg, filter_vars, id_vars, adapter_vars,
                 disk_feed, disk_rss, disk_master, run,
                 faults, seen, existing_items, recent_items, new_team_items,
                 new_items_total, ti, pi, cause, fetched, prev_fetched,
                 prev_done, feed_changed, evicted, run_evicted, prev_evicted,
                 substituted, errors, pre_partial>>

\* The process is killed in the middle of a run.
Crash ==
  /\ InRun
  /\ faults < MaxFaults
  /\ faults' = faults + 1
  /\ pc' = "crashed"
  /\ Exit
  /\ UNCHANGED <<cfg, filter_vars, id_vars, adapter_vars,
                 disk_seen, disk_feed, disk_rss,
                 disk_master, run, cause, prev_fetched, prev_done, evicted,
                 run_evicted, prev_evicted, substituted, pre_partial>>

Next ==
  \/ StartRun
  \/ LoadTeam
  \/ CheckProduct
  \/ MergeOpen
  \/ FeedDump
  \/ WriteRss
  \/ Master
  \/ SeenOpen
  \/ SeenDump
  \/ Crash

Spec == Init /\ [][Next]_vars

\* ------------------------------------------------------------ the filter alone
SeqsUpTo(S, n) == UNION {[1..k -> S] : k \in 0..n}

FilterTitles == {<<"a">>, <<"A", "b">>}
FilterSummaries == {<<>>, <<"b">>, <<"B", "a">>}
FilterKeywords == {<<>>, <<"a">>, <<"B">>, <<"b", WS, "b">>}

FilterItemPool ==
  {RawItem(t, sm, 1) : t \in FilterTitles, sm \in FilterSummaries}

FilterInit ==
  /\ cfg = "base"
  /\ MainInit(FreshDisk)
  /\ IdleId
  /\ IdleAdapter
  /\ f_items \in SeqsUpTo(FilterItemPool, MaxFilterItems)
  /\ f_include \in SeqsUpTo(FilterKeywords, MaxKeywords)
  /\ f_exclude \in SeqsUpTo(FilterKeywords, MaxKeywords)
  /\ f_out = <<>>
  /\ f_pc = "ready"

FilterApply ==
  /\ f_pc = "ready"
  /\ f_out' = apply_keyword_filters(f_items, f_include, f_exclude)
  /\ f_pc' = "done"
  /\ UNCHANGED <<main_vars, id_vars, adapter_vars, f_items, f_include, f_exclude>>

FilterNext == FilterApply

SpecFilter == FilterInit /\ [][FilterNext]_vars

\* ------------------------------------------------------------ identity alone
IdProducts == {<<"p">>, <<"P">>, <<WS, "p">>, <<"p", ":", "a">>}
IdTitles == {<<>>, <<"a">>, <<"A">>, <<"b">>, <<"a", ":", "b">>}
IdLinks == {<<>>, <<"l">>, <<"L">>, <<"l", WS>>, <<"b", ":", "l">>, <<"h", ":", "l">>}

Triples ==
  {[product_id |-> p, title |-> t, link |-> l] :
     p \in IdProducts, t \in IdTitles, l \in IdLinks}

IdInit ==
  /\ cfg = "base"
  /\ MainInit(FreshDisk)
  /\ IdleFilter
  /\ IdleAdapter
  /\ id_a \in Triples
  /\ id_b \in Triples
  /\ id_out = <<>>
  /\ id_pc = "ready"

IdCompute ==
  /\ id_pc = "ready"
  /\ id_out' = <<generate_item_id(id_a.product_id, id_a.title, id_a.link),
                 generate_item_id(id_b.product_id, id_b.title, id_b.link)>>
  /\ id_pc' = "done"
  /\ UNCHANGED <<main_vars, filter_vars, adapter_vars, id_a, id_b>>

IdNext == IdCompute

SpecId == IdInit /\ [][IdNext]_vars

\* ------------------------------------------------------------ source adapters
\* `[:10]` in check_rss_source, check_scrape_source, check_nextjs_blog_source
ENTRY_LIMIT == 10

\* datetime.now(timezone.utc).isoformat(), later than every date of a source
NOW == 9

NoDate == 0

\* s[i:i+len(w)] == w
At(s, i, w) ==
  i >= 1 /\ i + Len(w) - 1 <= Len(s) /\ SubSeq(s, i, i + Len(w) - 1) = w

\* str.startswith
StartsWith(s, w) == At(s, 1, w)

\* re.sub(r'\s+', ' ', text): a run of whitespace becomes one space
RECURSIVE Collapse(_)
Collapse(s) ==
  IF Len(s) < 2 THEN s
  ELSE IF s[1] = WS /\ s[2] = WS THEN Collapse(Tail(s))
  ELSE <<s[1]>> \o Collapse(Tail(s))

clean_text(text) == Strip(Collapse(text))

\* One record of a source, release "v<n>.0": a feed entry, an API article or
\* a post of the embedded JSON.
Record(n) == [title |-> <<"v">> \o Dec(n) \o <<".", "0">>, date |-> n]

BlankRecord == [title |-> <<WS>>, date |-> 1]

Records(n) == [i \in 1..n |-> Record(i)]

\* check_zendesk_api_source: one item per article of the response
check_zendesk_api_source(src) ==
  IF ~src.ok
  THEN [items |-> <<>>, log |-> {"api_error"}]
  ELSE LET articles == src.records
       IN [items |-> [i \in DOMAIN articles |->
                        [title |-> Strip(articles[i].title), link |-> LINK,
                         date |-> articles[i].date]],
           log |-> {}]

\* check_rss_source: one item per entry of feed.entries[:10]
check_rss_source(src) ==
  IF ~src.ok
  THEN [items |-> <<>>, log |-> {"fetch_failed"}]
  ELSE LET entries == FirstN(src.records, ENTRY_LIMIT)
       IN [items |-> [i \in DOMAIN entries |->
                        RawItem(clean_text(entries[i].title), <<>>,
                                IF entries[i].date = NoDate THEN NOW
                                ELSE entries[i].date)],
           log |-> {}]

\* check_nextjs_blog_source: obj[:10], posts without a title are skipped
check_nextjs_blog_source(src) ==
  IF ~src.ok THEN [items |-> <<>>, log |-> {"fetch_failed"}]
  ELSE IF ~src.script THEN [items |-> <<>>, log |-> {"no_next_data"}]
  ELSE LET posts == FirstN(src.records, ENTRY_LIMIT)
           titled(post) == Strip(post.title) # <<>>
           kept == SelectSeq(posts, titled)
       IN [items |-> [i \in DOMAIN kept |->
                        RawItem(Strip(kept[i].title), <<>>,
                                IF kept[i].date = NoDate THEN NOW
                                ELSE kept[i].date)],
           log |-> {}]

\* The page after the non-content tags are removed, as what soup.select
\* answers to each selector the adapter can ask: a sequence of elements
\* [name, text, has_heading, heading, para, sibling, href, date].
FALLBACK_SELECTORS ==
  <<"article", ".changelog-entry", ".release-note", ".post",
    "section:not(:empty)", ".entry", ".update", "[class*='release']",
    "[class*='changelog']", "[class*='update']">>

HEADINGS == "h2, h3"
ANCHORS == "a[href]"

Selectors == {"custom", HEADINGS, ANCHORS} \cup Range(FALLBACK_SELECTORS)

\* soup.select(selector)
Select(page, selector) == page[selector]

VersionWords ==
  {<<"r", "e", "l", "e", "a", "s", "e">>,
   <<"u", "p", "d", "a", "t", "e">>,
   <<"v", "e", "r", "s", "i", "o", "n">>,
   <<"c", "h", "a", "n", "g", "e", "l", "o", "g">>}

IsDigit(c) == c \in {"0", "1", "2", "3", "4", "5", "6", "7", "8", "9"}

\* version_pattern.search(text):
\* (v?\d+\.\d+|release|update|version|changelog|what.?s.new), re.I
VersionLike(text) ==
  LET t == Lower(text)
  IN \/ \E w \in VersionWords : Contains(t, w)
     \/ \E i \in 1..(Len(t) - 2) :
          IsDigit(t[i]) /\ t[i + 1] = "." /\ IsDigit(t[i + 2])
     \/ \E i \in 1..Len(t) :
          /\ At(t, i, <<"w", "h", "a", "t">>)
          /\ \/ At(t, i + 4, <<"s">>) /\ At(t, i + 6, <<"n", "e", "w">>)
             \/ At(t, i + 5, <<"s">>) /\ At(t, i + 7, <<"n", "e", "w">>)

skip_words ==
  {<<"m", "e", "n", "u">>,
   <<"n", "a", "v", "i", "g", "a", "t", "i", "o", "n">>,
   <<"s", "i", "d", "e", "b", "a", "r">>,
   <<"f", "o", "o", "t", "e", "r">>,
   <<"h", "e", "a", "d", "e", "r">>,
   <<"c", "o", "o", "k", "i", "e">>,
   <<"p", "r", "i", "v", "a", "c", "y">>,
   <<"s", "i", "g", "n", " ", "i", "n">>,
   <<"l", "o", "g", " ", "i", "n">>,
   <<"s", "u", "b", "s", "c", "r", "i", "b", "e">>,
   <<"c", "o", "n", "t", "a", "c", "t">>,
   <<"a", "b", "o", "u", "t", " ", "u", "s">>}

URL == <<"u">>

\* The element's link: the href of the element or of the first anchor in it,
\* else the product's release notes URL
ElementLink(el) ==
  IF el.href = <<>> THEN LINK
  ELSE IF StartsWith(el.href, <<"h", "t", "t", "p", ":", "/", "/">>)
          \/ StartsWith(el.href, <<"h", "t", "t", "p", "s", ":", "/", "/">>)
       THEN el.href
  ELSE IF StartsWith(el.href, <<"/">>) THEN URL \o el.href
  ELSE LINK

ElementTitle(el) ==
  IF el.has_heading THEN clean_text(el.heading)
  ELSE clean_text(FirstN(el.text, 150))

ElementSummary(el, title) ==
  IF el.para # <<>> THEN clean_text(el.para)
  ELSE IF el.name \in {"h2", "h3", "h4", "strong"}
          /\ clean_text(FirstN(el.sibling, 500)) # <<>>
       THEN clean_text(FirstN(el.sibling, 500))
  ELSE LET summary == clean_text(FirstN(el.text, 500))
       IN IF summary = title THEN <<>> ELSE summary

\* `continue` in the loop over elements[:10]
Skipped(el) ==
  LET title == ElementTitle(el)
  IN \/ Len(title) < 3
     \/ \E w \in skip_words : Contains(Lower(title), w)

ExtractItem(el) ==
  LET title == ElementTitle(el)
  IN RawItem(IF Len(title) > 200
               THEN FirstN(title, 197) \o <<".", ".", ".">>
               ELSE title,
             ElementSummary(el, title),
             IF el.date = NoDate THEN NOW ELSE el.date)

\* for el in elements[:10]
ExtractLoop(elements) ==
  LET kept(el) == ~Skipped(el)
      entries == SelectSeq(FirstN(elements, ENTRY_LIMIT), kept)
  IN [i \in DOMAIN entries |->
        [ExtractItem(entries[i]) EXCEPT !.link = ElementLink(entries[i])]]

\* Strategy 1: the configured selector, "article" when none is configured
Strategy1(page, src) ==
  [elements |-> Select(page, IF src.configured THEN "custom" ELSE "article"),
   tried |-> <<"selector">>]

\* Strategy 2: the first common selector that matches
RECURSIVE FallbackLoop(_, _)
FallbackLoop(page, k) ==
  IF k > Len(FALLBACK_SELECTORS) THEN <<>>
  ELSE IF Select(page, FALLBACK_SELECTORS[k]) # <<>>
       THEN Select(page, FALLBACK_SELECTORS[k])
       ELSE FallbackLoop(page, k + 1)

Strategy2(page, st) ==
  IF st.elements # <<>> THEN st
  ELSE [elements |-> FallbackLoop(page, 1), tried |-> Append(st.tried, "common")]

\* Faulty variant: the headings are used whenever the page has some.
Strategy3Always(page, st) ==
  IF Select(page, HEADINGS) = <<>> THEN st
  ELSE [elements |-> Select(page, HEADINGS),
        tried |-> Append(st.tried, "headings")]

\* Strategy 3: headings as entry markers
Strategy3(page, st) ==
  IF st.elements # <<>> THEN st
  ELSE [elements |-> Select(page, HEADINGS),
        tried |-> Append(st.tried, "headings")]

\* Strategy 4: links that look like changelog entries
Strategy4(page, st) ==
  IF st.elements # <<>> THEN st
  ELSE LET all_links == Select(page, ANCHORS)
           version(a) == VersionLike(a.text \o <<WS>> \o a.href)
       IN [elements |-> SelectSeq(all_links, version),
           tried |-> Append(st.tried, "links")]

\* check_scrape_source
check_scrape_source(src) ==
  IF ~src.ok
  THEN [items |-> <<>>, log |-> {"fetch_failed"}, tried |-> <<>>,
        elements |-> <<>>]
  ELSE LET st == Strategy4(src.page,
                   Strategy3(src.page,
                     Strategy2(src.page, Strategy1(src.page, src))))
           thin == IF src.thin THEN {"js_rendered"} ELSE {}
       IN IF st.elements = <<>>
          THEN [items |-> <<>>, log |-> thin \cup {"no_elements"},
                tried |-> st.tried, elements |-> <<>>]
          ELSE [items |-> ExtractLoop(st.elements), log |-> thin,
                tried |-> st.tried, elements |-> st.elements]

\* ------------------------------------------------------------ adapters alone
Article(n) ==
  [name |-> "article", text |-> Record(n).title \o <<WS, "n">>,
   has_heading |-> TRUE, heading |-> Record(n).title, para |-> <<"n">>,
   sibling |-> <<>>, href |-> <<"/", "r">>, date |-> n]

Heading(text) ==
  [name |-> "h2", text |-> text, has_heading |-> FALSE, heading |-> <<>>,
   para |-> <<>>, sibling |-> <<"n">>, href |-> <<>>, date |-> NoDate]

Anchor(text, href) ==
  [name |-> "a", text |-> text, has_heading |-> FALSE, heading |-> <<>>,
   para |-> <<>>, sibling |-> <<>>, href |-> href, date |-> NoDate]

CookieBanner ==
  <<"C", "o", "o", "k", "i", "e", WS, "b", "a", "n", "n", "e", "r">>

RecordLists ==
  {Records(n) : n \in 0..MaxRecords}
    \cup {<<BlankRecord>> \o Records(n) : n \in 0..MaxRecords}

CustomMatches == {<<>>, <<Article(1)>>}

\* What the common selectors match: nothing, ".post" only, "article" with more
\* elements than the adapter takes, ".entry" and ".update" both.
CommonMatches ==
  LET none == [sel \in Range(FALLBACK_SELECTORS) |-> <<>>]
  IN {none,
      [none EXCEPT ![".post"] = <<Article(2)>>],
      [none EXCEPT !["article"] = [i \in 1..MaxRecords |-> Article(i)]],
      [none EXCEPT ![".entry"] = <<Article(3)>>,
                   ![".update"] = <<Article(4)>>]}

HeadingMatches ==
  {<<>>,
   <<Heading(CookieBanner), Heading(Record(1).title)>>,
   <<Heading(<<"a", "b">>)>>}

AnchorMatches ==
  {<<>>,
   <<Anchor(<<"d", "o", "c", "s">>, <<"/", "d">>)>>,
   <<Anchor(<<"d", "o", "c", "s">>, <<"/", "d">>),
     Anchor(<<"n", "e", "w", "s">>, <<"/", "v", "2", ".", "1">>)>>}

PagePool ==
  {[sel \in Selectors |->
      IF sel = "custom" THEN c
      ELSE IF sel = HEADINGS THEN h
      ELSE IF sel = ANCHORS THEN a
      ELSE m[sel]] :
     c \in CustomMatches, m \in CommonMatches,
     h \in HeadingMatches, a \in AnchorMatches}

SourceTypes == {"rss", "scrape", "zendesk_api", "nextjs_blog"}

\* What a source can answer to the one request of an adapter call.
Sources(source_type) ==
  IF source_type = "scrape"
  THEN {[ok |-> o, thin |-> t, configured |-> c, page |-> pg] :
          o \in BOOLEAN, t \in BOOLEAN, c \in BOOLEAN, pg \in PagePool}
  ELSE IF source_type = "nextjs_blog"
  THEN {[ok |-> o, script |-> sc, records |-> r] :
          o \in BOOLEAN, sc \in BOOLEAN, r \in RecordLists}
  ELSE {[ok |-> o, records |-> r] : o \in BOOLEAN, r \in RecordLists}

AdapterInit ==
  /\ cfg = "base"
  /\ MainInit(FreshDisk)
  /\ IdleFilter
  /\ IdleId
  /\ a_type \in SourceTypes
  /\ a_src \in Sources(a_type)
  /\ a_out = <<>>
  /\ a_pc = "ready"

Returned(result) ==
  /\ a_out' = result
  /\ a_pc' = "done"
  /\ UNCHANGED <<main_vars, filter_vars, id_vars, a_type, a_src>>

CheckRss ==
  /\ a_pc = "ready" /\ a_type = "rss"
  /\ Returned(check_rss_source(a_src))

CheckScrape ==
  /\ a_pc = "ready" /\ a_type = "scrape"
  /\ Returned(check_scrape_source(a_src))

CheckZendesk ==
  /\ a_pc = "ready" /\ a_type = "zendesk_api"
  /\ Returned(check_zendesk_api_source(a_src))

CheckNextjs ==
  /\ a_pc = "ready" /\ a_type = "nextjs_blog"
  /\ Returned(check_nextjs_blog_source(a_src))

AdapterNext ==
  \/ CheckRss
  \/ CheckScrape
  \/ CheckZendesk
  \/ CheckNextjs

SpecAdapter == AdapterInit /\ [][AdapterNext]_vars

\* ------------------------------------------------------------ claims
NoDupIds(items) ==
  \A i, j \in DOMAIN items : items[i].id = items[j].id => i = j

NewestFirst(items) ==
  \A i \in 1..(Len(items) - 1) : items[i].date >= items[i + 1].date

\* The ids the step has added to new_team_items.
AddedNew ==
  {new_team_items'[i].id :
     i \in (Len(new_team_items) + 1)..Len(new_team_items')}

\* C1 (as stated): an id that was ever recorded for a (team, product), whether
\* it is still in the seen list or the truncation has dropped it since, is
\* never added to the new items by a check of that product.
C1_RecordedNeverNewAgain ==
  [][pc = "product" =>
       AddedNew \cap (Range(seen[CurSlot]) \cup evicted[CurSlot]) = {}]_vars

\* C1 (amended): an id that is in the seen list of the (team, product) when the
\* product is checked is not added to the new items by that check.
C1_SeenIdNotNew ==
  [][pc = "product" => AddedNew \cap Range(seen[CurSlot]) = {}]_vars

\* A team whose check re-enriched an item that SeenState already held, and did
\* not report it as new.
C1_Witness ==
  /\ pc = "merge"
  /\ disk_seen.st = "ok"
  /\ \E i \in DOMAIN recent_items :
       /\ recent_items[i].id
            \in Range(Loaded(disk_seen)[<<CurTeam, recent_items[i].product_id>>])
       /\ \A j \in DOMAIN new_team_items :
            new_team_items[j].id # recent_items[i].id

SecondRunSameSources ==
  /\ pc = "done"
  /\ prev_done
  /\ fetched = prev_fetched

\* C2 (as stated): a run that follows a complete run, every source returning
\* what it returned before, reports no new item and leaves the ids of every
\* FeedHistory as they were.
C2_Idempotent ==
  SecondRunSameSources =>
    /\ new_items_total = 0
    /\ \A t \in TeamSet : ~feed_changed[t]

\* C2 (amended): such a run leaves the ids of every FeedHistory as they were,
\* and reports no new item provided the truncation of the seen lists dropped
\* no id in the first run.
C2_IdempotentUnlessEvicted ==
  SecondRunSameSources =>
    /\ \A t \in TeamSet : ~feed_changed[t]
    /\ (~prev_evicted => new_items_total = 0)

\* A second run over the six-item page that found nothing new.
C2_Witness ==
  /\ SecondRunSameSources
  /\ ~prev_evicted
  /\ fetched[<<"t1", "p">>] = 4
  /\ Len(disk_feed["t1"].data) >= RECENT_PER_PRODUCT
  /\ new_items_total = 0

\* C3: every persisted seen list holds at most 200 ids and every persisted
\* FeedHistory at most MAX_FEED_ITEMS items.
C3_BoundedGrowth ==
  /\ \A s \in Slots : Len(disk_seen.data[s]) <= SEEN_LIMIT
  /\ \A t \in TeamSet : Len(disk_feed[t].data) <= MAX_FEED_ITEMS

\* C4: the FeedHistory a team's merge writes is this run's items followed by
\* the prior history, with only the first occurrence of each id kept, cut to
\* the cap: its k-th item is the earliest item of that sequence whose id is not
\* among the k-1 items before it, and it stops at the cap or when every id is
\* in; history a, b, c with this run's b, d gives b, d, a, c.
C4_MergeCorrect ==
  pc = "rss" =>
    LET all == recent_items \o existing_items
        R == disk_feed[CurTeam].data
        a == ItemOf(<<"a">>, 1).id
        b == ItemOf(<<"b">>, 1).id
        c == ItemOf(<<"c">>, 1).id
        d == ItemOf(<<"d">>, 1).id
    IN /\ disk_feed[CurTeam].st = "ok"
       /\ Len(R) = Min(MAX_FEED_ITEMS,
                       Cardinality({all[i].id : i \in DOMAIN all}))
       /\ \A k \in DOMAIN R :
            LET before == {R[j].id : j \in 1..(k - 1)}
                i == CHOOSE x \in DOMAIN all :
                       /\ all[x].id \notin before
                       /\ \A y \in 1..(x - 1) : all[y].id \in before
            IN R[k] = all[i]
       /\ (Ids(existing_items) = <<a, b, c>> /\ Ids(recent_items) = <<b, d>>
             => Ids(R) = <<b, d, a, c>>)

\* The merge of history a, b, c with this run's b, d has been written.
C4_Witness ==
  /\ pc = "rss"
  /\ Ids(existing_items) = Ids(<<ItemOf(<<"a">>, 1), ItemOf(<<"b">>, 1),
                                 ItemOf(<<"c">>, 1)>>)
  /\ Ids(recent_items) = Ids(<<ItemOf(<<"b">>, 1), ItemOf(<<"d">>, 1)>>)
  /\ Len(disk_feed[CurTeam].data) = 4

\* C5 (as stated): after a run every persisted FeedHistory has no two items of
\* one id and is ordered newest-first by date.
C5_HistoryNewestFirst ==
  pc = "done" =>
    \A t \in TeamSet :
      NoDupIds(disk_feed[t].data) /\ NewestFirst(disk_feed[t].data)

\* C5 (amended): after a run every persisted FeedHistory has no two items of
\* one id, and the team's rendered feed lists the items of that history
\* newest-first by date.
C5_NoDupAndRenderedNewestFirst ==
  pc = "done" =>
    \A t \in TeamSet :
      /\ NoDupIds(disk_feed[t].data)
      /\ NewestFirst(disk_rss[t])
      /\ {disk_rss[t][i].guid : i \in DOMAIN disk_rss[t]}
           = Range(Ids(disk_feed[t].data))

\* A run has ended with a history that is not in date order, which the
\* rendered feed has put in date order.
C5_Witness ==
  /\ pc = "done"
  /\ \E t \in TeamSet :
       /\ ~NewestFirst(disk_feed[t].data)
       /\ NewestFirst(disk_rss[t])
       /\ Len(disk_rss[t]) = Len(disk_feed[t].data)

\* C6: when a run is killed, every state blob that was whole when the run
\* started is whole: the value from before the run or the value the run wrote.
C6_AtomicWriteBack ==
  pc = "crashed" =>
    /\ (disk_seen.st = "partial" => "seen" \in pre_partial)
    /\ \A t \in TeamSet : disk_feed[t].st = "partial" => t \in pre_partial

\* C7: a run that could not read a state blob is fatal; it does not go on with
\* a substitute for that blob.
C7_StateReadFailureFatal == substituted => pc = "fatal"

\* C8: an error raised by the check of a product never ends the run: the only
\* fatal causes are the state files; no product is skipped on the way, and a
\* run that ends has checked every product of every team and has written
\* every team's feed and SeenState.
C8_ProductErrorContained ==
  /\ (pc = "fatal" => cause \in {"read_seen", "write"})
  /\ (pc = "product" =>
        /\ \A j \in 1..(pi - 1) : fetched[<<CurTeam, Products(CurTeam)[j].id>>] # 0
        /\ \A u \in 1..(ti - 1) : \A j \in DOMAIN Products(TeamIds[u]) :
             fetched[<<TeamIds[u], Products(TeamIds[u])[j].id>>] # 0)
  /\ (pc = "done" =>
        /\ \A s \in Slots : fetched[s] # 0
        /\ \A t \in TeamSet : disk_feed[t].st = "ok"
        /\ disk_seen = Ok(seen))

\* A run in which the check of the first product of the first team raised has
\* run to its end, with the other products checked.
C8_Witness ==
  /\ pc = "done"
  /\ errors >= 1
  /\ fetched[<<"t1", "p">>] = 1
  /\ fetched[<<"t1", "q">>] # 0
  /\ fetched[<<"t2", "p">>] = 1
  /\ Len(disk_feed["t2"].data) >= 2
  /\ disk_seen.st = "ok"

HasColon(str) == \E i \in DOMAIN str : str[i] = ":"

\* No ':' in the product id or the title, no whitespace in front of the product
\* id, none at the end of the link.
CleanTriple(x) ==
  /\ ~HasColon(x.product_id)
  /\ ~HasColon(x.title)
  /\ (x.product_id # <<>> => Head(x.product_id) # WS)
  /\ (x.link # <<>> => x.link[Len(x.link)] # WS)

SameUpToCase(x, y) ==
  /\ Lower(x.product_id) = Lower(y.product_id)
  /\ Lower(x.title) = Lower(y.title)
  /\ Lower(x.link) = Lower(y.link)

SearchText(item) == item.title \o <<WS>> \o item.summary

\* Case-insensitive substring match of one term
Matches(item, term) ==
  \E i \in 0..(Len(SearchText(item)) - Len(term)) :
    Lower(SubSeq(SearchText(item), i + 1, i + Len(term))) = Lower(term)

MatchesAny(item, terms) == \E k \in DOMAIN terms : Matches(item, terms[k])

Wanted(item) ==
  /\ (f_include # <<>> => MatchesAny(item, f_include))
  /\ (f_exclude # <<>> => ~MatchesAny(item, f_exclude))

C11_AdapterAtMostTen ==
  a_pc = "done" => Len(a_out.items) <= ENTRY_LIMIT

\* What each strategy of the fallback chain matches on the scraped page, in
\* the order (a) configured selector, (b) common selectors, (c) headings,
\* (d) version-like anchors.
ChainMatches ==
  LET page == a_src.page
      hits == {k \in DOMAIN FALLBACK_SELECTORS :
                 page[FALLBACK_SELECTORS[k]] # <<>>}
      first == CHOOSE k \in hits : \A j \in hits : k <= j
      versioned(a) == VersionLike(a.text \o <<WS>> \o a.href)
  IN << page[IF a_src.configured THEN "custom" ELSE "article"],
        IF hits = {} THEN <<>> ELSE page[FALLBACK_SELECTORS[first]],
        page[HEADINGS],
        SelectSeq(page[ANCHORS], versioned) >>

ChainNames == <<"selector", "common", "headings", "links">>

Scraped == a_pc = "done" /\ a_type = "scrape" /\ a_src.ok

\* C13: on a fetched page the candidate elements are the matches of the first
\* strategy of the chain that matches anything, and no strategy is consulted
\* after it; the adapter gives up with the "no elements" warning exactly when
\* none of the four matches.
C13_FallbackChain ==
  Scraped =>
    LET hit == {k \in 1..4 : ChainMatches[k] # <<>>}
    IN IF hit = {}
       THEN /\ a_out.items = <<>>
            /\ "no_elements" \in a_out.log
            /\ a_out.tried = ChainNames
       ELSE LET k == CHOOSE x \in hit : \A y \in hit : x <= y
            IN /\ a_out.elements = ChainMatches[k]
               /\ a_out.tried = SubSeq(ChainNames, 1, k)
               /\ "no_elements" \notin a_out.log

\* The configured selector and the common selectors match nothing, the page
\* has headings: the headings are the candidates, and the one whose title
\* holds a boilerplate keyword is dropped.
C13_Witness ==
  /\ Scraped
  /\ a_src.configured
  /\ ChainMatches[1] = <<>> /\ ChainMatches[2] = <<>>
  /\ Len(ChainMatches[3]) = 2
  /\ ChainMatches[4] # <<>>
  /\ a_out.elements = ChainMatches[3]
  /\ Len(a_out.items) = 1

\* C12 (as stated): when a run has ended, every item of every team's persisted
\* FeedHistory has an entry in the combined document.
C12_MasterHasEveryItem ==
  pc = "done" =>
    \A t \in TeamSet : \A i \in DOMAIN disk_feed[t].data :
      \E j \in DOMAIN disk_master :
        disk_master[j].guid = disk_feed[t].data[i].id

\* C14 (as stated): once a team's FeedHistory is written, and from then to the
\* end of the run, every item the run has reported as new for the team is in
\* the team's persisted FeedHistory.
C14_NewItemsPersisted ==
  pc \in {"rss", "master", "seen_open", "seen_dump", "done"} =>
    \A i \in DOMAIN new_team_items :
      new_team_items[i].id \in Range(Ids(disk_feed[CurTeam].data))

====
